---------------------------- MODULE Spec2Model ----------------------------
(***************************************************************************)
(* A model of mcp_client_cli/cli.py: the on-disk tool cache                *)
(* (get_cached_tools / save_tools_cache), tool discovery                   *)
(* (convert_mcp_to_langchain_tools), the per-call tool adapter             *)
(* (McpTool._arun), the thread store (ConversationManager), and the        *)
(* streaming loop of run().                                                *)
(*                                                                         *)
(* Python values are modelled as tagged records (py |-> ...), JSON text as *)
(* tagged records (js |-> ...), text as sequences of one-character strings *)
(* where the code manipulates characters (the cache key), and datetimes as *)
(* whole hours since an epoch.                                             *)
(***************************************************************************)
EXTENDS Integers, Sequences, FiniteSets, TLC

VARIABLES
    \* ---- the tool cache directory and the clock
    files,            \* cache_file name -> NoFile or [exists, text]
    now,              \* datetime.now(), in hours
    entry,            \* history: cache_file name -> what was put there, and when
    \* ---- one call of convert_mcp_to_langchain_tools
    dpc,              \* its position
    server_params,    \* its argument: the configured servers, in order
    di,               \* index of the server_param of the current iteration
    langchain_tools,  \* the list being built
    listed,           \* tools.tools of the current iteration's list_tools()
    dsession,         \* the discovery session that is open, as a set (0 or 1)
    derr,             \* the exception that ended the call, if any
    liveOpened,       \* history: per configured server, live sessions opened
    hadFresh,         \* history: per configured server, a fresh entry existed
    lastRead,         \* history: the last get_cached_tools call and its result
    druns,            \* calls started so far
    dlog,             \* history: what the current call did, in order
    hits,             \* history: per cache file, the reads that returned its list
    \* ---- the thread store (conversations.db, table last_conversation)
    tableExists,      \* the table has been created (committed)
    rows,             \* its committed rows, in rowid order
    txn,              \* the open transaction of the run's connection, if any
    \* ---- one run of the CLI, from line 278 on
    rpc,              \* its position
    is_continuation,  \* line 279
    thread_id,        \* lines 282/284
    nextUuid,         \* uuid4() values drawn so far
    cliRuns,          \* runs started so far
    usedId,           \* history: the thread_id passed to astream
    rowsAtStart,      \* history: the committed rows when the run started
    lastSaved,        \* history: the last completed save
    startSaved,       \* history: lastSaved when the run started
    failedSince,      \* history: a run failed since the last completed save
    startFailed,      \* history: failedSince when the run started
    \* ---- the calls of McpTool._arun made by the agent executor
    inv,              \* per call: position, tool, arguments, session, result
    sessions,         \* the transport sessions that are open
    nextSid,          \* sessions opened so far, plus one
    \* ---- the async for loop of run() over the executor's stream, and stdout
    spc,              \* position: in the loop, after it, or left by an exception
    tty,              \* stdout is a terminal (line buffered) or not (block buffered)
    outbuf,           \* text written to stdout and not yet flushed
    flushed,          \* the flushes of stdout so far, each the text it delivered
    consumed,         \* history: the chunks consumed so far
    rendered,         \* history: per tool call of the last chunk, its lines
    lastGet           \* history: the last get_last_id call and its result

cacheVars == <<files, now, entry, dpc, server_params, di, langchain_tools,
               listed, dsession, derr, liveOpened, hadFresh, lastRead, druns,
               dlog, hits>>

threadVars == <<tableExists, rows, txn, rpc, is_continuation, thread_id, nextUuid,
                cliRuns, usedId, rowsAtStart, lastSaved, startSaved, failedSince,
                lastGet,
                   startFailed>>

toolVars == <<inv, sessions, nextSid>>

renderVars == <<spc, tty, outbuf, flushed, consumed, rendered>>

vars == <<cacheVars, threadVars, toolVars, renderVars>>

notCacheVars == <<threadVars, toolVars, renderVars>>
notThreadVars == <<cacheVars, toolVars, renderVars>>
notToolVars == <<cacheVars, threadVars, renderVars>>
notRenderVars == <<cacheVars, threadVars, toolVars>>

---------------------------------------------------------------------------
(* Bounds of the model. *)
MaxClock == 36
TickHours == 12
MaxRuns == 2
MaxCliRuns == 3
MaxInitRows == 2
MaxInv == 2
MaxEvents == 3

(* cli.py line 32 *)
CACHE_EXPIRY_HOURS == 24

---------------------------------------------------------------------------
(* Python and JSON values. *)

PyNone == [py |-> "None"]
PyStr(s) == [py |-> "str", s |-> s]
PyIso(d) == [py |-> "str", iso |-> d]
PyDict(items) == [py |-> "dict", items |-> items]
PyList(xs) == [py |-> "list", xs |-> xs]

IsPyStr(v) == v.py = "str" /\ "s" \in DOMAIN v
IsPyIso(v) == v.py = "str" /\ "iso" \in DOMAIN v
IsPyDict(v) == v.py = "dict"
IsPyList(v) == v.py = "list"

HasKey(d, k) == \E i \in 1..Len(d.items) : d.items[i][1] = k
GetItem(d, k) == d.items[(CHOOSE i \in 1..Len(d.items) : d.items[i][1] = k)][2]

IsPrefix(a, b) == Len(a) <= Len(b) /\ \A k \in 1..Len(a) : a[k] = b[k]

JsGarbage == [js |-> "garbage"]

\* json.dumps: a Python value to JSON text
RECURSIVE json_dumps(_)
json_dumps(v) ==
    CASE v.py = "None" -> [js |-> "null"]
      [] IsPyStr(v)    -> [js |-> "string", chars |-> v.s]
      [] IsPyIso(v)    -> [js |-> "string", stamp |-> v.iso]
      [] v.py = "dict" -> [js |-> "object",
                           members |-> [i \in 1..Len(v.items) |->
                                <<v.items[i][1], json_dumps(v.items[i][2])>>]]
      [] v.py = "list" -> [js |-> "array",
                           elems |-> [i \in 1..Len(v.xs) |-> json_dumps(v.xs[i])]]

\* json.loads of text that parses: JSON text to a Python value
RECURSIVE json_loads(_)
json_loads(t) ==
    CASE t.js = "null"   -> PyNone
      [] t.js = "string" -> IF "chars" \in DOMAIN t THEN PyStr(t.chars)
                                                    ELSE PyIso(t.stamp)
      [] t.js = "object" -> PyDict([i \in 1..Len(t.members) |->
                                <<t.members[i][1], json_loads(t.members[i][2])>>])
      [] t.js = "array"  -> PyList([i \in 1..Len(t.elems) |-> json_loads(t.elems[i])])

\* json.loads raises JSONDecodeError on text that is no JSON document
JsonParses(t) == t.js # "garbage"

---------------------------------------------------------------------------
(* datetime: isoformat() and fromisoformat(). *)

isoformat(h) == [day |-> h \div 24, hour |-> h % 24]
IsIsoFormat(s) == IsPyIso(s)
fromisoformat(s) == s.iso.day * 24 + s.iso.hour

---------------------------------------------------------------------------
(* types.Tool and its (de)serialisation. *)

Schema1 == PyDict(<< <<"type", PyStr("object")>> >>)
Schema2 == PyDict(<< <<"type", PyStr("object")>>,
                     <<"properties",
                       PyDict(<< <<"q", PyDict(<< <<"type", PyStr("string")>> >>)>> >>)>>,
                     <<"required", PyList(<<PyStr("q")>>)>> >>)

Tool1 == [name |-> "t1", description |-> PyStr("first"), inputSchema |-> Schema1]
Tool2 == [name |-> "t2", description |-> PyNone, inputSchema |-> Schema2]
Tool3 == [name |-> "t3", description |-> PyStr("third"), inputSchema |-> Schema2]

\* what a server may answer to list_tools()
ToolLists == {<<>>, <<Tool2, Tool1>>, <<Tool1, Tool3>>}

model_dump_str(tool) ==
    PyDict(<< <<"name", PyStr(tool.name)>>,
              <<"description", IF tool.description = PyNone THEN PyStr("None")
                                                            ELSE tool.description>>,
              <<"inputSchema", tool.inputSchema>> >>)

\* tool.model_dump()
model_dump(tool) ==
    PyDict(<< <<"name", PyStr(tool.name)>>,
              <<"description", tool.description>>,
              <<"inputSchema", tool.inputSchema>> >>)

\* types.Tool(**tool) validates: name a str, inputSchema a dict,
\* description a str or None (None when the key is missing)
ToolValidates(d) ==
    /\ IsPyDict(d)
    /\ HasKey(d, "name") /\ IsPyStr(GetItem(d, "name"))
    /\ HasKey(d, "inputSchema") /\ IsPyDict(GetItem(d, "inputSchema"))
    /\ HasKey(d, "description") =>
          (GetItem(d, "description").py = "None" \/ IsPyStr(GetItem(d, "description")))

ToolFromDict(d) ==
    [name |-> GetItem(d, "name").s,
     description |-> IF HasKey(d, "description") THEN GetItem(d, "description")
                                                 ELSE PyNone,
     inputSchema |-> GetItem(d, "inputSchema")]

---------------------------------------------------------------------------
(* StdioServerParameters; command and args are text, as character
   sequences. *)

SrvA  == [command |-> <<"n">>, args |-> << <<"a", "/", "b">> >>, env |-> "e1"]
SrvA2 == [command |-> <<"n">>, args |-> << <<"a", "/", "b">> >>, env |-> "e2"]
SrvB  == [command |-> <<"n">>, args |-> << <<"a">>, <<"b">> >>, env |-> "e1"]
SrvC  == [command |-> <<"m">>, args |-> << >>, env |-> "e1"]
Servers == {SrvA, SrvA2, SrvB, SrvC}

\* '-'.join(args)
RECURSIVE Join(_)
Join(ss) ==
    IF Len(ss) = 0 THEN <<>>
    ELSE IF Len(ss) = 1 THEN ss[1]
    ELSE ss[1] \o <<"-">> \o Join(Tail(ss))

\* str.replace("/", "-")
Replace(s) == [i \in 1..Len(s) |-> IF s[i] = "/" THEN "-" ELSE s[i]]

\* cli.py line 49: the key get_cached_tools derives
cache_key(sp) == Replace(sp.command \o <<"-">> \o Join(sp.args))

save_cache_key_env(sp) ==
    Replace(sp.command \o <<"-">> \o Join(sp.args) \o <<"-", sp.env>>)

\* cli.py line 70: the key save_tools_cache derives
save_cache_key(sp) == Replace(sp.command \o <<"-">> \o Join(sp.args))

CacheFiles == {cache_key(sp) : sp \in Servers} \cup {save_cache_key(sp) : sp \in Servers}

NoFile == [exists |-> FALSE]
File(text) == [exists |-> TRUE, text |-> text]
NoEntry == [put |-> FALSE]


---------------------------------------------------------------------------
(* ThreadStore: the statements of ConversationManager on the table
   last_conversation (id INTEGER PRIMARY KEY, thread_id TEXT NOT NULL). *)

OldId(i) == [src |-> "old", n |-> i]
Uuid(i) == [src |-> "uuid4", n |-> i]
NoId == [src |-> "none", n |-> 0]

RECURSIVE MaxRowId(_)
MaxRowId(rs) ==
    IF Len(rs) = 0 THEN 0
    ELSE LET r == MaxRowId(Tail(rs)) IN IF rs[1].id > r THEN rs[1].id ELSE r

sql_delete_none(rs) == rs

\* line 205: DELETE FROM last_conversation
sql_delete(rs) == <<>>

\* lines 206-209: INSERT INTO last_conversation (thread_id) VALUES (?)
sql_insert(rs, t) == Append(rs, [id |-> MaxRowId(rs) + 1, thread_id |-> t])

\* line 179: SELECT thread_id FROM last_conversation LIMIT 1, with no
\* ORDER BY: any row may be the one returned
sql_select_limit1(rs) == {rs[i].thread_id : i \in 1..Len(rs)}

NoTxn == [active |-> FALSE]
Txn(rs) == [active |-> TRUE, rows |-> rs]

ExecuteAutocommit(committed, t, after) == [rows |-> after, txn |-> NoTxn]

\* lines 205-209: a DELETE or an INSERT executed on the connection, which
\* has sqlite3's default isolation level: the statement opens a transaction
\* when none is open and its effect stays in the transaction until commit
Execute(committed, t, after) == [rows |-> committed, txn |-> Txn(after)]

\* what the run's own connection sees
ConnRows == IF txn.active THEN txn.rows ELSE rows

ResolveAlwaysFresh(cont, got, fresh) == fresh

\* lines 279-284: the thread id of the run
ResolveThreadId(cont, got, fresh) == IF cont THEN got ELSE fresh

NotSaved == [ok |-> FALSE]
NoGet == [got |-> FALSE]

ThreadInitial ==
    /\ \E n \in 0..MaxInitRows, created \in BOOLEAN :
          /\ (n > 0) => created
          /\ tableExists = created
          /\ rows = [i \in 1..n |-> [id |-> i, thread_id |-> OldId(i)]]
    /\ txn = NoTxn
    /\ rpc = "idle"
    /\ is_continuation = FALSE
    /\ thread_id = NoId
    /\ nextUuid = 1
    /\ cliRuns = 0
    /\ usedId = NoId
    /\ rowsAtStart = <<>>
    /\ lastSaved = NotSaved
    /\ startSaved = NotSaved
    /\ failedSince = FALSE
    /\ startFailed = FALSE
    /\ lastGet = NoGet

\* the thread store part at rest, for the specifications of the other parts
ThreadAtRest ==
    /\ tableExists = FALSE
    /\ rows = <<>>
    /\ txn = NoTxn
    /\ rpc = "idle"
    /\ is_continuation = FALSE
    /\ thread_id = NoId
    /\ nextUuid = 1
    /\ cliRuns = 0
    /\ usedId = NoId
    /\ rowsAtStart = <<>>
    /\ lastSaved = NotSaved
    /\ startSaved = NotSaved
    /\ failedSince = FALSE
    /\ startFailed = FALSE
    /\ lastGet = NoGet

get_last_id_persisting(rs, fresh) ==
    IF Len(rs) > 0
    THEN {[id |-> t, minted |-> FALSE, rows |-> rs] : t \in sql_select_limit1(rs)}
    ELSE {[id |-> fresh, minted |-> TRUE, rows |-> sql_insert(rs, fresh)]}

\* lines 171-181: get_last_id on the rows of the table (created by _init_db
\* if need be): the thread id of a row, or a uuid4 when there is none; the
\* ways it may end, each with the rows it leaves
get_last_id(rs, fresh) ==
    IF Len(rs) > 0
    THEN {[id |-> t, minted |-> FALSE, rows |-> rs] : t \in sql_select_limit1(rs)}
    ELSE {[id |-> fresh, minted |-> TRUE, rows |-> rs]}

\* lines 278-284: a fresh run draws a uuid4; a continuation calls
\* get_last_id
RunResolveStep ==
    /\ rpc \in {"idle", "failed", "done"}
    /\ cliRuns < MaxCliRuns
    /\ cliRuns' = cliRuns + 1
    /\ rowsAtStart' = rows
    /\ startSaved' = lastSaved
    /\ startFailed' = failedSince
    /\ \E cont \in BOOLEAN :
          /\ is_continuation' = cont
          /\ \/ /\ cont
                /\ \E o \in get_last_id(rows, Uuid(nextUuid)) :
                      /\ thread_id' = ResolveThreadId(cont, o.id, Uuid(nextUuid))
                      /\ lastGet' = [got |-> TRUE, id |-> o.id, saved |-> lastSaved,
                                      minted |-> o.minted, before |-> rows,
                                      after |-> o.rows]
                      /\ nextUuid' = IF o.minted THEN nextUuid + 1 ELSE nextUuid
                      /\ rows' = o.rows
                /\ tableExists' = TRUE
             \/ /\ ~cont
                /\ thread_id' = ResolveThreadId(cont, NoId, Uuid(nextUuid))
                /\ lastGet' = lastGet
                /\ nextUuid' = nextUuid + 1
                /\ tableExists' = tableExists
                /\ rows' = rows
    /\ rpc' = "resolved"
    /\ UNCHANGED <<txn, usedId, lastSaved, failedSince>>

RunResolve == RunResolveStep /\ UNCHANGED notThreadVars

\* lines 290-294: the agent executor is given the thread id
RunAstreamStep ==
    /\ rpc = "resolved"
    /\ usedId' = thread_id
    /\ rpc' = "streaming"
    /\ UNCHANGED <<tableExists, rows, txn, is_continuation, thread_id, nextUuid, cliRuns,
                   rowsAtStart, lastSaved, startSaved, failedSince, lastGet,
                   startFailed>>

RunAstream == RunAstreamStep /\ UNCHANGED notThreadVars

\* the stream raises (a model error, a tool error the executor re-raises):
\* the exception leaves run()
RunStreamFailStep ==
    /\ rpc = "streaming"
    /\ rpc' = "failed"
    /\ failedSince' = TRUE
    /\ UNCHANGED <<tableExists, rows, txn, is_continuation, thread_id, nextUuid, cliRuns,
                   usedId, rowsAtStart, lastSaved, startSaved, lastGet,
                   startFailed>>

RunStreamFail == RunStreamFailStep /\ UNCHANGED notThreadVars

\* line 326: the stream is exhausted
RunStreamEndStep ==
    /\ rpc = "streaming"
    /\ rpc' = "printed"
    /\ UNCHANGED <<tableExists, rows, txn, is_continuation, thread_id, nextUuid, cliRuns,
                   usedId, rowsAtStart, lastSaved, startSaved, failedSince, lastGet,
                   startFailed>>

RunStreamEnd == RunStreamEndStep /\ UNCHANGED notThreadVars

\* lines 329, 194, 203-204: _save_id calls _init_db, which commits
SaveInitDb ==
    /\ rpc = "printed"
    /\ tableExists' = TRUE
    /\ rows' = ConnRows
    /\ txn' = NoTxn
    /\ rpc' = "save_init"
    /\ UNCHANGED <<is_continuation, thread_id, nextUuid, cliRuns, usedId, rowsAtStart,
                   lastSaved, startSaved, failedSince, lastGet,
                   startFailed>>
    /\ UNCHANGED notThreadVars

\* line 205: the DELETE opens a transaction
SaveDelete ==
    /\ rpc = "save_init"
    /\ LET r == Execute(rows, txn, sql_delete(ConnRows))
       IN  rows' = r.rows /\ txn' = r.txn
    /\ rpc' = "save_deleted"
    /\ UNCHANGED <<tableExists, is_continuation, thread_id, nextUuid, cliRuns,
                   usedId, rowsAtStart, lastSaved, startSaved, failedSince, lastGet,
                   startFailed>>
    /\ UNCHANGED notThreadVars

\* lines 206-209
SaveInsert ==
    /\ rpc = "save_deleted"
    /\ LET r == Execute(rows, txn, sql_insert(ConnRows, thread_id))
       IN  rows' = r.rows /\ txn' = r.txn
    /\ rpc' = "save_inserted"
    /\ UNCHANGED <<tableExists, is_continuation, thread_id, nextUuid, cliRuns,
                   usedId, rowsAtStart, lastSaved, startSaved, failedSince, lastGet,
                   startFailed>>
    /\ UNCHANGED notThreadVars

\* line 210
SaveCommit ==
    /\ rpc = "save_inserted"
    /\ rows' = ConnRows
    /\ txn' = NoTxn
    /\ lastSaved' = [ok |-> TRUE, id |-> thread_id]
    /\ failedSince' = FALSE
    /\ rpc' = "done"
    /\ UNCHANGED <<tableExists, is_continuation, thread_id, nextUuid, cliRuns, usedId,
                   rowsAtStart, startSaved, lastGet,
                   startFailed>>
    /\ UNCHANGED notThreadVars

NextThread ==
    \/ RunResolve
    \/ RunAstream
    \/ RunStreamFail
    \/ RunStreamEnd
    \/ SaveInitDb
    \/ SaveDelete
    \/ SaveInsert
    \/ SaveCommit

---------------------------------------------------------------------------
(* ToolCacheStore: get_cached_tools and save_tools_cache. *)

RetNone == [kind |-> "None"]
RetTools(ts) == [kind |-> "tools", tools |-> ts]
Raise(exc) == [kind |-> "raise", exc |-> exc]

ExpiredAtBoundary(nowH, cached_time) == nowH - cached_time >= CACHE_EXPIRY_HOURS

\* cli.py lines 56-58: the entry's age against the expiry window
Expired(nowH, cached_time) == nowH - cached_time > CACHE_EXPIRY_HOURS

\* cli.py line 61
LoadTools(tools) ==
    IF ~IsPyList(tools) THEN Raise("TypeError")
    ELSE IF \E i \in 1..Len(tools.xs) : ~ToolValidates(tools.xs[i])
    THEN Raise("ValidationError")
    ELSE RetTools([i \in 1..Len(tools.xs) |-> ToolFromDict(tools.xs[i])])

get_cached_tools(fs, sp, nowH) ==
    LET cache_file == cache_key(sp)
        text       == fs[cache_file].text
        cache_data == json_loads(text)
        cached_at  == GetItem(cache_data, "cached_at")
    IN  IF ~fs[cache_file].exists THEN RetNone
        ELSE IF ~JsonParses(text) THEN Raise("JSONDecodeError")
        ELSE IF ~IsPyDict(cache_data) THEN Raise("TypeError")
        ELSE IF ~HasKey(cache_data, "cached_at") THEN Raise("KeyError")
        ELSE IF ~IsIsoFormat(cached_at) THEN Raise("ValueError")
        ELSE IF Expired(nowH, fromisoformat(cached_at)) THEN RetNone
        ELSE IF ~HasKey(cache_data, "tools") THEN Raise("KeyError")
        ELSE LoadTools(GetItem(cache_data, "tools"))

\* cli.py lines 73-76
CacheData(tools, nowH) ==
    PyDict(<< <<"cached_at", PyIso(isoformat(nowH))>>,
              <<"tools", PyList([i \in 1..Len(tools) |-> model_dump(tools[i])])>> >>)

save_tools_cache_merge(fs, sp, tools, nowH) ==
    LET old  == fs[save_cache_key(sp)]
        data == json_loads(old.text)
        kept == IF old.exists /\ JsonParses(old.text) /\ IsPyDict(data)
                   /\ HasKey(data, "tools") /\ IsPyList(GetItem(data, "tools"))
                THEN GetItem(data, "tools").xs
                ELSE <<>>
    IN  [fs EXCEPT ![save_cache_key(sp)] =
            File(json_dumps(PyDict(<< <<"cached_at", PyIso(isoformat(nowH))>>,
                                      <<"tools", PyList(kept \o CacheData(tools, nowH).items[2][2].xs)>> >>)))]

\* cli.py lines 63-77: write_text replaces the whole file
save_tools_cache(fs, sp, tools, nowH) ==
    [fs EXCEPT ![save_cache_key(sp)] = File(json_dumps(CacheData(tools, nowH)))]

get_cached_tools_touch(fs, sp, nowH) ==
    LET r == get_cached_tools(fs, sp, nowH)
    IN  IF r.kind = "tools"
        THEN [fs EXCEPT ![cache_key(sp)] = File(json_dumps(CacheData(r.tools, nowH)))]
        ELSE fs

\* cli.py lines 48-61: the cache files after get_cached_tools, which makes
\* the directory, tests the file and reads it, and writes no file
get_cached_tools_files(fs, sp, nowH) == fs

\* cli.py lines 79-112: the McpTool built from a schema and its server
create_langchain_tool(tool_schema, sp) ==
    [name |-> tool_schema.name,
     description |-> tool_schema.description,
     args_schema |-> tool_schema.inputSchema,
     mcp_server_params |-> sp]

\* Python truthiness of Optional[List]: None and [] are both false
Truthy(r) == r.kind = "tools" /\ Len(r.tools) > 0

---------------------------------------------------------------------------
(* The cache files a run may find on disk when it starts. *)

CorruptTexts ==
    { JsGarbage,
      json_dumps(PyDict(<< <<"tools", PyList(<<>>)>> >>)),
      json_dumps(PyDict(<< <<"cached_at", PyStr("yesterday")>>,
                           <<"tools", PyList(<<>>)>> >>)),
      json_dumps(PyDict(<< <<"cached_at", PyIso(isoformat(0))>>,
                           <<"tools", PyList(<<PyDict(<< <<"description", PyNone>> >>)>>)>> >>)) }

InitLists == {<<>>, <<Tool2, Tool1>>}

\* a file and the history of what was put in it
InitFileStates ==
    {<<NoFile, NoEntry>>}
    \cup {<<File(t), NoEntry>> : t \in CorruptTexts}
    \cup {<<File(json_dumps(CacheData(L, 0))), [put |-> TRUE, at |-> 0, tools |-> L]>>
            : L \in InitLists}

NoRead == [read |-> FALSE]

CacheInitial ==
    /\ \E g \in CacheFiles, st \in InitFileStates :
          /\ files = [f \in CacheFiles |-> IF f = g THEN st[1] ELSE NoFile]
          /\ entry = [f \in CacheFiles |-> IF f = g THEN st[2] ELSE NoEntry]
    /\ now = 0
    /\ dpc = "idle"
    /\ server_params = <<>>
    /\ di = 0
    /\ langchain_tools = <<>>
    /\ listed = <<>>
    /\ dsession = {}
    /\ derr = "none"
    /\ liveOpened = <<>>
    /\ hadFresh = <<>>
    /\ lastRead = NoRead
    /\ druns = 0
    /\ dlog = <<>>
    /\ hits = [f \in CacheFiles |-> 0]

\* the discovery part at rest, for the specifications of the other parts
CacheAtRest ==
    /\ files = [f \in CacheFiles |-> NoFile]
    /\ entry = [f \in CacheFiles |-> NoEntry]
    /\ now = 0
    /\ dpc = "idle"
    /\ server_params = <<>>
    /\ di = 0
    /\ langchain_tools = <<>>
    /\ listed = <<>>
    /\ dsession = {}
    /\ derr = "none"
    /\ liveOpened = <<>>
    /\ hadFresh = <<>>
    /\ lastRead = NoRead
    /\ druns = 0
    /\ dlog = <<>>
    /\ hits = [f \in CacheFiles |-> 0]

\* the configurations a run may be started with: one server, two servers
\* with different cache files, and two with the same one
Configs == {<<SrvA>>, <<SrvC, SrvA2>>, <<SrvA, SrvC>>, <<SrvB, SrvA>>}

\* history: a put entry that has not expired
FreshEntry(f) == entry[f].put /\ now - entry[f].at <= CACHE_EXPIRY_HOURS

---------------------------------------------------------------------------
(* convert_mcp_to_langchain_tools, cli.py lines 114-143. *)

WrapReversed(tools, sp) ==
    [i \in 1..Len(tools) |-> create_langchain_tool(tools[Len(tools) + 1 - i], sp)]

\* lines 129-130 and 140-141: the tools of one server, in the order given
Wrap(tools, sp) == [i \in 1..Len(tools) |-> create_langchain_tool(tools[i], sp)]

\* time passes; the clock's unit is long against one call, so it moves
\* between calls
Tick ==
    /\ dpc \in {"idle", "done", "crashed"}
    /\ now + TickHours <= MaxClock
    /\ now' = now + TickHours
    /\ UNCHANGED <<files, entry, dpc, server_params, di, langchain_tools, listed,
                   dsession, derr, liveOpened, hadFresh, lastRead, druns, dlog, hits>>
    /\ UNCHANGED notCacheVars

\* line 123: the call starts
DiscStart ==
    /\ dpc \in {"idle", "done", "crashed"}
    /\ druns < MaxRuns
    /\ \E cfg \in Configs :
          /\ server_params' = cfg
          /\ liveOpened' = [k \in 1..Len(cfg) |-> 0]
          /\ hadFresh' = [k \in 1..Len(cfg) |-> FALSE]
    /\ di' = 1
    /\ langchain_tools' = <<>>
    /\ listed' = <<>>
    /\ derr' = "none"
    /\ dpc' = "loop"
    /\ druns' = druns + 1
    /\ dlog' = <<>>
    /\ UNCHANGED <<files, now, entry, dsession, lastRead, hits>>
    /\ UNCHANGED notCacheVars

\* what line 128 does with the result of line 126
ConsultOutcome(r) ==
    IF r.kind = "raise" THEN "raise"
    ELSE IF Truthy(r) THEN "hit"
    ELSE "miss"

\* lines 125-131: one iteration up to the cache decision
DiscConsult ==
    /\ dpc = "loop"
    /\ di <= Len(server_params)
    /\ LET sp == server_params[di]
           r  == get_cached_tools(files, sp, now)
           o  == ConsultOutcome(r)
       IN  /\ lastRead' = [read |-> TRUE, sp |-> sp, file |-> cache_key(sp), at |-> now,
                            existed |-> files[cache_key(sp)].exists,
                            had |-> entry[cache_key(sp)], result |-> r]
           /\ hadFresh' = [hadFresh EXCEPT ![di] = FreshEntry(cache_key(sp))]
           /\ dpc' = CASE o = "raise" -> "crashed"
                       [] o = "hit"   -> "loop"
                       [] o = "miss"  -> "spawn"
           /\ derr' = IF o = "raise" THEN r.exc ELSE derr
           /\ di' = IF o = "hit" THEN di + 1 ELSE di
           /\ langchain_tools' = IF o = "hit" THEN langchain_tools \o Wrap(r.tools, sp)
                                              ELSE langchain_tools
           /\ dlog' = Append(dlog, [ev |-> "consult", k |-> di, files |-> files,
                                     outcome |-> o, result |-> r])
           /\ hits' = IF r.kind = "tools" THEN [hits EXCEPT ![cache_key(sp)] = @ + 1]
                                           ELSE hits
           /\ files' = get_cached_tools_files(files, sp, now)
    /\ UNCHANGED <<now, entry, server_params, listed, dsession, liveOpened, druns>>
    /\ UNCHANGED notCacheVars

\* lines 133-135: the transport and the session are entered
DiscOpen ==
    /\ dpc = "spawn"
    /\ \/ /\ dsession' = {server_params[di]}
          /\ liveOpened' = [liveOpened EXCEPT ![di] = @ + 1]
          /\ dpc' = "session"
          /\ derr' = derr
          /\ dlog' = Append(dlog, [ev |-> "open", k |-> di])
       \/ /\ dsession' = dsession
          /\ liveOpened' = liveOpened
          /\ dpc' = "crashed"
          /\ derr' = "SpawnError"
          /\ dlog' = dlog
    /\ UNCHANGED <<files, now, entry, server_params, di, langchain_tools, listed,
                   hadFresh, lastRead, druns, hits>>
    /\ UNCHANGED notCacheVars

\* line 136
DiscInitialize ==
    /\ dpc = "session"
    /\ \/ /\ dpc' = "initialized"
          /\ dlog' = Append(dlog, [ev |-> "initialize", k |-> di])
          /\ UNCHANGED <<dsession, derr>>
       \/ /\ dpc' = "crashed"
          /\ dsession' = {}
          /\ derr' = "McpError"
          /\ dlog' = Append(dlog, [ev |-> "close", k |-> di])
    /\ UNCHANGED <<files, now, entry, server_params, di, langchain_tools, listed,
                   liveOpened, hadFresh, lastRead, druns, hits>>
    /\ UNCHANGED notCacheVars

\* line 137
DiscListTools ==
    /\ dpc = "initialized"
    /\ \/ /\ \E L \in ToolLists :
                /\ listed' = L
                /\ dlog' = Append(dlog, [ev |-> "list_tools", k |-> di, tools |-> L])
          /\ dpc' = "listed"
          /\ UNCHANGED <<dsession, derr>>
       \/ /\ dpc' = "crashed"
          /\ listed' = listed
          /\ dsession' = {}
          /\ derr' = "McpError"
          /\ dlog' = Append(dlog, [ev |-> "close", k |-> di])
    /\ UNCHANGED <<files, now, entry, server_params, di, langchain_tools,
                   liveOpened, hadFresh, lastRead, druns, hits>>
    /\ UNCHANGED notCacheVars

\* lines 138-141
DiscSave ==
    /\ dpc = "listed"
    /\ files' = save_tools_cache(files, server_params[di], listed, now)
    /\ entry' = [entry EXCEPT ![save_cache_key(server_params[di])] =
                    [put |-> TRUE, at |-> now, tools |-> listed,
                     by |-> server_params[di]]]
    /\ langchain_tools' = langchain_tools \o Wrap(listed, server_params[di])
    /\ dpc' = "closing"
    /\ dlog' = Append(dlog, [ev |-> "save", k |-> di, at |-> now])
    /\ hits' = [hits EXCEPT ![save_cache_key(server_params[di])] = 0]
    /\ UNCHANGED <<now, server_params, di, listed, dsession, derr, liveOpened,
                   hadFresh, lastRead, druns>>
    /\ UNCHANGED notCacheVars

\* the two async with blocks are left; the loop goes on
DiscClose ==
    /\ dpc = "closing"
    /\ dsession' = {}
    /\ di' = di + 1
    /\ dpc' = "loop"
    /\ dlog' = Append(dlog, [ev |-> "close", k |-> di])
    /\ UNCHANGED <<files, now, entry, server_params, langchain_tools, listed, derr,
                   liveOpened, hadFresh, lastRead, druns, hits>>
    /\ UNCHANGED notCacheVars

\* line 143
DiscReturn ==
    /\ dpc = "loop"
    /\ di > Len(server_params)
    /\ dpc' = "done"
    /\ UNCHANGED <<files, now, entry, server_params, di, langchain_tools, listed,
                   dsession, derr, liveOpened, hadFresh, lastRead, druns, dlog, hits>>
    /\ UNCHANGED notCacheVars

NextCache ==
    \/ Tick
    \/ DiscStart
    \/ DiscConsult
    \/ DiscOpen
    \/ DiscInitialize
    \/ DiscListTools
    \/ DiscSave
    \/ DiscClose
    \/ DiscReturn

---------------------------------------------------------------------------
(* ToolAdapter: McpTool._arun, cli.py lines 103-110.  The agent executor may
   have several calls in flight. *)

InvIds == 1..MaxInv

\* the tools the executor was given: two of one server, one of another
BoundTools == {create_langchain_tool(Tool1, SrvA), create_langchain_tool(Tool2, SrvA),
               create_langchain_tool(Tool1, SrvC)}

\* the keyword arguments of a call
Kwargs == {"q=1", "q=2"}

\* what a server may answer to call_tool
CallToolResults == [isError : BOOLEAN, content : {"text-1", "text-2"}]

NoResult == [got |-> FALSE]
Pending == [kind |-> "pending"]
Idle == [pc |-> "idle", log |-> <<>>, result |-> NoResult, outcome |-> Pending]

ToolInitial ==
    /\ inv = [i \in InvIds |-> Idle]
    /\ sessions = {}
    /\ nextSid = 1

SessionPooled(open, sp, fresh) ==
    IF \E s \in open : s.server = sp
    THEN (CHOOSE s \in open : s.server = sp).sid
    ELSE fresh

\* lines 104-105: stdio_client spawns a process of its own and ClientSession
\* wraps its streams: the session of a call is a new one
SessionFor(open, sp, fresh) == fresh

ArunReturnsAlways(result) == [kind |-> "return", value |-> result.content]

\* lines 108-110
ArunOutcome(result) ==
    IF result.isError
    THEN [kind |-> "raise", exc |-> "ToolException", payload |-> result.content]
    ELSE [kind |-> "return", value |-> result.content]

Event(op, sid) == [op |-> op, sid |-> sid]
Close(open, sid) == {s \in open : s.sid # sid}

\* lines 103-105: the executor calls _arun(**kwargs); the transport and the
\* session are entered, or the process cannot be spawned.  Calls are
\* numbered in the order they are made.
InvOpen(i) ==
    /\ inv[i].pc = "idle"
    /\ \A j \in InvIds : j < i => inv[j].pc # "idle"
    /\ \E tool \in BoundTools, kwargs \in Kwargs :
          \/ LET sid == SessionFor(sessions, tool.mcp_server_params, nextSid)
             IN  /\ inv' = [inv EXCEPT ![i] =
                            [pc |-> "opened", tool |-> tool, kwargs |-> kwargs,
                             sid |-> sid, log |-> <<Event("open", sid)>>,
                             result |-> NoResult, outcome |-> Pending]]
                 /\ sessions' = sessions \cup
                                   {[sid |-> sid, server |-> tool.mcp_server_params]}
                 /\ nextSid' = nextSid + 1
          \/ /\ inv' = [inv EXCEPT ![i] =
                            [pc |-> "done", tool |-> tool, kwargs |-> kwargs,
                             sid |-> 0, log |-> <<>>, result |-> NoResult,
                             outcome |-> [kind |-> "raise", exc |-> "SpawnError"]]]
             /\ UNCHANGED <<sessions, nextSid>>
    /\ UNCHANGED notToolVars

\* line 106: the handshake; when it fails both async with blocks are left
InvInitialize(i) ==
    /\ inv[i].pc = "opened"
    /\ \/ /\ inv' = [inv EXCEPT ![i].pc = "initialized",
                                 ![i].log = Append(@, Event("initialize", inv[i].sid))]
          /\ UNCHANGED sessions
       \/ /\ inv' = [inv EXCEPT ![i].pc = "done",
                                 ![i].log = @ \o <<Event("initialize", inv[i].sid),
                                                   Event("close", inv[i].sid)>>,
                                 ![i].outcome = [kind |-> "raise", exc |-> "McpError"]]
          /\ sessions' = Close(sessions, inv[i].sid)
    /\ UNCHANGED nextSid
    /\ UNCHANGED notToolVars

\* line 107: the one call_tool; the server answers, or the request fails
InvCallTool(i) ==
    /\ inv[i].pc = "initialized"
    /\ LET call == [op |-> "call_tool", sid |-> inv[i].sid, name |-> inv[i].tool.name,
                     arguments |-> inv[i].kwargs]
       IN  \/ /\ \E res \in CallToolResults :
                    inv' = [inv EXCEPT ![i].pc = "answered",
                                       ![i].log = Append(@, call),
                                       ![i].result = [got |-> TRUE, isError |-> res.isError,
                                                      content |-> res.content]]
              /\ UNCHANGED sessions
           \/ /\ inv' = [inv EXCEPT ![i].pc = "done",
                                     ![i].log = @ \o <<call, Event("close", inv[i].sid)>>,
                                     ![i].outcome = [kind |-> "raise", exc |-> "McpError"]]
              /\ sessions' = Close(sessions, inv[i].sid)
    /\ UNCHANGED nextSid
    /\ UNCHANGED notToolVars

\* lines 108-110: raise or return; either way both async with blocks are
\* left and the session is closed
InvExit(i) ==
    /\ inv[i].pc = "answered"
    /\ inv' = [inv EXCEPT ![i].pc = "done",
                          ![i].log = Append(@, Event("close", inv[i].sid)),
                          ![i].outcome = ArunOutcome(inv[i].result)]
    /\ sessions' = Close(sessions, inv[i].sid)
    /\ UNCHANGED nextSid
    /\ UNCHANGED notToolVars

NextTool ==
    \E i \in InvIds :
        \/ InvOpen(i)
        \/ InvInitialize(i)
        \/ InvCallTool(i)
        \/ InvExit(i)

---------------------------------------------------------------------------
(* ResponseRenderer: the loop of run(), cli.py lines 290-326.  Text is a
   sequence of pieces (the strings the code puts together); the empty string
   is no text. *)

Text(pieces) == SelectSeq(pieces, LAMBDA p : p # "")

RECURSIVE Flatten(_)
Flatten(ss) == IF Len(ss) = 0 THEN <<>> ELSE ss[1] \o Flatten(Tail(ss))

\* dict.get(key, default)
DictGet(d, k, default) == IF HasKey(d, k) THEN GetItem(d, k) ELSE default

\* bool(v) of a value that is None, a str, a list or a dict
PyTruthy(v) ==
    CASE v.py = "None" -> FALSE
      [] v.py = "str"  -> v.s # ""
      [] v.py = "list" -> Len(v.xs) > 0
      [] v.py = "dict" -> Len(v.items) > 0

\* ---- the chunks astream may yield with stream_mode=["messages", "values"]
MessageChunk(cls, content) ==
    [shape |-> "tuple", tag |-> "messages", cls |-> cls, content |-> content]
ValuesChunk(cls, tool_calls) ==
    [shape |-> "tuple", tag |-> "values", cls |-> cls, tool_calls |-> tool_calls]
DictChunk(keys) == [shape |-> "dict", keys |-> keys]

TokenHello == MessageChunk("AIMessageChunk", PyStr("Hello"))
TokenWorld == MessageChunk("AIMessageChunk", PyStr(" world"))
TokenEmpty == MessageChunk("AIMessageChunk", PyStr(""))
TokenSegments ==
    MessageChunk("AIMessageChunk",
                 PyList(<<PyDict(<< <<"type", PyStr("text")>>, <<"text", PyStr("Hi")>> >>),
                          PyDict(<< <<"type", PyStr("text")>>, <<"text", PyStr("more")>> >>)>>))
TokenToolUse ==
    MessageChunk("AIMessageChunk",
                 PyList(<<PyDict(<< <<"type", PyStr("tool_use")>> >>)>>))
TokenNoSegments == MessageChunk("AIMessageChunk", PyList(<<>>))
ToolMessageChunk == MessageChunk("ToolMessage", PyStr("tool output"))
FinalValue == DictChunk({"messages"})
OtherDict == DictChunk({"today_datetime"})

CallPlain == PyDict(<< <<"name", PyStr("search")>>,
                       <<"args", PyDict(<< <<"q", PyStr("cats")>>, <<"n", PyStr("3")>> >>)>>,
                       <<"id", PyStr("call-1")>> >>)
CallFailed == PyDict(<< <<"name", PyStr("fetch")>>,
                        <<"args", PyStr("{url:")>>,
                        <<"error", PyStr("bad json")>> >>)
CallNoError == PyDict(<< <<"args", PyNone>>, <<"error", PyNone>> >>)
CallEmptyError == PyDict(<< <<"name", PyStr("fetch")>>,
                            <<"args", PyDict(<<>>)>>,
                            <<"error", PyStr("")>> >>)

Chunks ==
    { TokenHello, TokenWorld, TokenEmpty, TokenSegments, TokenToolUse, TokenNoSegments,
      ToolMessageChunk, FinalValue, OtherDict,
      ValuesChunk("AIMessage", <<CallPlain>>),
      ValuesChunk("AIMessage", <<CallFailed, CallPlain>>),
      ValuesChunk("AIMessage", <<CallNoError, CallEmptyError>>),
      ValuesChunk("AIMessage", <<>>),
      ValuesChunk("HumanMessage", <<>>) }

\* ---- stdout
Stdout(buf, out) == [buf |-> buf, out |-> out]

py_print_unflushed(st, pieces, end, flush, isatty) ==
    Stdout(st.buf \o Text(pieces \o <<end>>), st.out)

\* print(..., end=end, flush=flush): the text goes to stdout's buffer, which
\* is delivered when flush is set, or at a newline on a terminal
py_print(st, pieces, end, flush, isatty) ==
    LET data == st.buf \o Text(pieces \o <<end>>)
        nl   == \E k \in 1..Len(pieces) : pieces[k] = "\n"
    IN  IF flush \/ (isatty /\ (nl \/ end = "\n"))
        THEN Stdout(<<>>, IF data = <<>> THEN st.out ELSE Append(st.out, data))
        ELSE Stdout(data, st.out)

\* "\n".join(lines)
RECURSIVE JoinLines(_)
JoinLines(lines) ==
    IF Len(lines) = 0 THEN <<>>
    ELSE IF Len(lines) = 1 THEN lines[1]
    ELSE lines[1] \o <<"\n">> \o JoinLines(Tail(lines))

ToolCallLinesErrorLast(tc) ==
    LET args == DictGet(tc, "args", PyNone)
    IN  << <<"  ", DictGet(tc, "name", PyStr("Tool")).s>> >>
        \o <<<<"  Args:">>>>
        \o (CASE IsPyStr(args)  -> << <<"    ", args.s>> >>
              [] IsPyDict(args) -> [k \in 1..Len(args.items) |->
                                       <<"    ", args.items[k][1], ": ", args.items[k][2].s>>]
              [] OTHER          -> <<>>)
        \o (IF PyTruthy(DictGet(tc, "error", PyNone))
            THEN << <<"  Error: ", DictGet(tc, "error", PyNone).s>> >>
            ELSE <<>>)

\* lines 313-324: the lines of one tool call
ToolCallLines(tc) ==
    LET args == DictGet(tc, "args", PyNone)
    IN  << <<"  ", DictGet(tc, "name", PyStr("Tool")).s>> >>
        \o (IF PyTruthy(DictGet(tc, "error", PyNone))
            THEN << <<"  Error: ", DictGet(tc, "error", PyNone).s>> >>
            ELSE <<>>)
        \o <<<<"  Args:">>>>
        \o (CASE IsPyStr(args)  -> << <<"    ", args.s>> >>
              [] IsPyDict(args) -> [k \in 1..Len(args.items) |->
                                       <<"    ", args.items[k][1], ": ", args.items[k][2].s>>]
              [] OTHER          -> <<>>)

Call(pieces, end, flush) == [pieces |-> pieces, end |-> end, flush |-> flush]

PrintsNoSeparator(chunk) ==
    IF chunk.shape = "tuple" /\ chunk.tag = "messages"
    THEN IF chunk.cls = "AIMessageChunk"
         THEN IF IsPyStr(chunk.content)
              THEN <<Call(<<chunk.content.s>>, "", TRUE)>>
              ELSE IF /\ IsPyList(chunk.content)
                      /\ Len(chunk.content.xs) > 0
                      /\ IsPyDict(chunk.content.xs[1])
                      /\ HasKey(chunk.content.xs[1], "text")
              THEN <<Call(<<GetItem(chunk.content.xs[1], "text").s>>, "", TRUE)>>
              ELSE <<>>
         ELSE <<>>
    ELSE IF chunk.shape = "dict" /\ "messages" \in chunk.keys
    THEN <<Call(<<>>, "\n", TRUE)>>
    ELSE IF chunk.shape = "tuple" /\ chunk.tag = "values"
    THEN IF chunk.cls = "AIMessage" /\ Len(chunk.tool_calls) > 0
         THEN <<Call(<<"\n", "\n", "Tool Calls:">>, "\n", FALSE)>>
              \o [k \in 1..Len(chunk.tool_calls) |->
                     Call(JoinLines(ToolCallLines(chunk.tool_calls[k])), "\n", FALSE)]
         ELSE <<>>
    ELSE <<>>

\* lines 295-325: the print calls one chunk leads to, in order
Prints(chunk) ==
    IF chunk.shape = "tuple" /\ chunk.tag = "messages"
    THEN IF chunk.cls = "AIMessageChunk"
         THEN IF IsPyStr(chunk.content)
              THEN <<Call(<<chunk.content.s>>, "", TRUE)>>
              ELSE IF /\ IsPyList(chunk.content)
                      /\ Len(chunk.content.xs) > 0
                      /\ IsPyDict(chunk.content.xs[1])
                      /\ HasKey(chunk.content.xs[1], "text")
              THEN <<Call(<<GetItem(chunk.content.xs[1], "text").s>>, "", TRUE)>>
              ELSE <<>>
         ELSE <<>>
    ELSE IF chunk.shape = "dict" /\ "messages" \in chunk.keys
    THEN <<Call(<<"\n">>, "\n", TRUE)>>
    ELSE IF chunk.shape = "tuple" /\ chunk.tag = "values"
    THEN IF chunk.cls = "AIMessage" /\ Len(chunk.tool_calls) > 0
         THEN <<Call(<<"\n", "\n", "Tool Calls:">>, "\n", FALSE)>>
              \o [k \in 1..Len(chunk.tool_calls) |->
                     Call(JoinLines(ToolCallLines(chunk.tool_calls[k])), "\n", FALSE)]
         ELSE <<>>
    ELSE <<>>

\* history: the lines built for each tool call of a chunk
Blocks(chunk) ==
    IF chunk.shape = "tuple" /\ chunk.tag = "values"
       /\ chunk.cls = "AIMessage" /\ Len(chunk.tool_calls) > 0
    THEN [k \in 1..Len(chunk.tool_calls) |->
            [tc |-> chunk.tool_calls[k], lines |-> ToolCallLines(chunk.tool_calls[k])]]
    ELSE <<>>

RECURSIVE Emit(_, _, _)
Emit(st, calls, isatty) ==
    IF Len(calls) = 0 THEN st
    ELSE Emit(py_print(st, calls[1].pieces, calls[1].end, calls[1].flush, isatty),
              Tail(calls), isatty)

RenderInitial ==
    /\ spc = "streaming"
    /\ tty \in BOOLEAN
    /\ outbuf = <<>>
    /\ flushed = <<>>
    /\ consumed = <<>>
    /\ rendered = <<>>

RenderAtRest ==
    /\ spc = "idle"
    /\ tty = FALSE
    /\ outbuf = <<>>
    /\ flushed = <<>>
    /\ consumed = <<>>
    /\ rendered = <<>>

\* one iteration of the loop: the next chunk, one of the given ones, is
\* consumed and rendered
RenderChunkFrom(chunks) ==
    /\ spc = "streaming"
    /\ Len(consumed) < MaxEvents
    /\ \E chunk \in chunks :
          LET st == Emit(Stdout(outbuf, flushed), Prints(chunk), tty)
          IN  /\ outbuf' = st.buf
              /\ flushed' = st.out
              /\ consumed' = Append(consumed, chunk)
              /\ rendered' = Blocks(chunk)
    /\ UNCHANGED <<spc, tty>>
    /\ UNCHANGED notRenderVars

RenderChunk == RenderChunkFrom(Chunks)

\* the stream raises: the exception leaves the loop and run()
RenderRaiseStep ==
    /\ spc = "streaming"
    /\ spc' = "raised"
    /\ UNCHANGED <<tty, outbuf, flushed, consumed, rendered>>

RenderRaise == RenderRaiseStep /\ UNCHANGED notRenderVars

EndOfStreamSilent(st, isatty) == st

\* line 326: print()
EndOfStream(st, isatty) == py_print(st, <<>>, "\n", FALSE, isatty)

\* line 326: the stream is exhausted
RenderEndStep ==
    /\ spc = "streaming"
    /\ LET st == EndOfStream(Stdout(outbuf, flushed), tty)
       IN  /\ outbuf' = st.buf
           /\ flushed' = st.out
    /\ spc' = "exhausted"
    /\ UNCHANGED <<tty, consumed, rendered>>

RenderEnd == RenderEndStep /\ UNCHANGED notRenderVars

NextRender ==
    \/ RenderChunk
    \/ RenderRaise
    \/ RenderEnd

---------------------------------------------------------------------------
(* The specifications: one per part of the program, the other parts at
   rest. *)

InitCache == ThreadAtRest /\ ToolInitial /\ RenderAtRest /\ CacheInitial

SpecCache == InitCache /\ [][NextCache]_vars

InitThread == CacheAtRest /\ ToolInitial /\ RenderAtRest /\ ThreadInitial

SpecThread == InitThread /\ [][NextThread]_vars

InitTool == CacheAtRest /\ ThreadAtRest /\ RenderAtRest /\ ToolInitial

SpecTool == InitTool /\ [][NextTool]_vars

InitRender == CacheAtRest /\ ThreadAtRest /\ ToolInitial /\ RenderInitial

SpecRender == InitRender /\ [][NextRender]_vars

\* ---- run() from line 278 to line 329 as a whole: the thread id is resolved,
\* the stream is rendered, and the id is saved.  Each run is a process of
\* its own, with its own stdout.

\* the chunks of the streams of these runs
RunChunks == {TokenHello, ValuesChunk("AIMessage", <<CallPlain>>)}

CliStart ==
    /\ RunResolveStep
    /\ spc' = "idle"
    /\ tty' \in BOOLEAN
    /\ outbuf' = <<>>
    /\ flushed' = <<>>
    /\ consumed' = <<>>
    /\ rendered' = <<>>
    /\ UNCHANGED <<cacheVars, toolVars>>

CliAstream ==
    /\ RunAstreamStep
    /\ spc = "idle"
    /\ spc' = "streaming"
    /\ UNCHANGED <<tty, outbuf, flushed, consumed, rendered>>
    /\ UNCHANGED <<cacheVars, toolVars>>

CliChunk == rpc = "streaming" /\ RenderChunkFrom(RunChunks)

CliRaise == RunStreamFailStep /\ RenderRaiseStep /\ UNCHANGED <<cacheVars, toolVars>>

CliPrint == RunStreamEndStep /\ RenderEndStep /\ UNCHANGED <<cacheVars, toolVars>>

NextRun ==
    \/ CliStart
    \/ CliAstream
    \/ CliChunk
    \/ CliRaise
    \/ CliPrint
    \/ SaveInitDb
    \/ SaveDelete
    \/ SaveInsert
    \/ SaveCommit

\* the loop is the one task of the process: it takes the next chunk when the
\* executor yields one and leaves the loop when the stream ends
SpecRun == InitThread /\ [][NextRun]_vars /\ WF_vars(CliChunk \/ CliPrint)

---------------------------------------------------------------------------
(* Properties of the tool cache and of discovery. *)

CacheReadErrors == {"JSONDecodeError", "KeyError", "ValueError", "TypeError",
                    "ValidationError"}

\* C1: in one call of convert_mcp_to_langchain_tools no live session is
\* opened for a server whose cache entry is fresh, whatever list the entry
\* holds, and exactly one is opened for every other server by the time the
\* call returns.
C1_SessionsPerServer ==
    \A k \in DOMAIN liveOpened :
        /\ hadFresh[k] => liveOpened[k] = 0
        /\ (dpc = "done" /\ ~hadFresh[k]) => liveOpened[k] = 1

\* C2: a read at N of an entry written at T <= N returns the stored list
\* unchanged iff N - T <= 24h and returns None iff N - T > 24h; a read of a
\* missing file returns the same None.
C2_ExpiryWindow ==
    lastRead.read =>
        /\ (lastRead.had.put /\ lastRead.at >= lastRead.had.at) =>
              /\ (lastRead.result = RetTools(lastRead.had.tools))
                    <=> (lastRead.at - lastRead.had.at <= CACHE_EXPIRY_HOURS)
              /\ (lastRead.result = RetNone)
                    <=> (lastRead.at - lastRead.had.at > CACHE_EXPIRY_HOURS)
        /\ ~lastRead.existed => lastRead.result = RetNone

\* a read exactly 24h after the write returned the stored, non-empty list
C2_BoundaryRead ==
    /\ lastRead.read
    /\ lastRead.had.put
    /\ lastRead.at - lastRead.had.at = CACHE_EXPIRY_HOURS
    /\ lastRead.result.kind = "tools"
    /\ Len(lastRead.result.tools) > 0

\* C7: a cache file that exists but cannot be read as an entry makes
\* get_cached_tools return None without raising, and the discovery call is
\* not ended by a cache read error.
C7_CorruptCacheIsAbsent ==
    /\ lastRead.read => lastRead.result.kind # "raise"
    /\ derr \notin CacheReadErrors

\* C10: a list put in the cache and read back within the expiry window has
\* the same length and order, and equal name, description and input shape
\* at every position.
C10_RoundTrip ==
    (/\ lastRead.read
     /\ lastRead.had.put
     /\ lastRead.at >= lastRead.had.at
     /\ lastRead.at - lastRead.had.at <= CACHE_EXPIRY_HOURS) =>
        /\ lastRead.result.kind = "tools"
        /\ Len(lastRead.result.tools) = Len(lastRead.had.tools)
        /\ \A i \in 1..Len(lastRead.had.tools) :
              /\ lastRead.result.tools[i].name = lastRead.had.tools[i].name
              /\ lastRead.result.tools[i].description = lastRead.had.tools[i].description
              /\ lastRead.result.tools[i].inputSchema = lastRead.had.tools[i].inputSchema

\* a list of two schemas, the first without a description, written by a
\* discovery call and read back by a later one
C10_ReadBackTwo ==
    /\ lastRead.read
    /\ lastRead.had.put
    /\ lastRead.had.at > 0
    /\ lastRead.at > lastRead.had.at
    /\ lastRead.result.kind = "tools"
    /\ Len(lastRead.result.tools) = 2
    /\ lastRead.result.tools[1].description = PyNone

\* the same command and the same ordered args
SameTarget(sp1, sp2) == sp1.command = sp2.command /\ sp1.args = sp2.args

\* the entries written by the discovery calls of the model
PutBySave(f) == entry[f].put /\ "by" \in DOMAIN entry[f]

\* C11: two ServerParameters with the same command and the same ordered args
\* have the same cache key whatever their env, the key of get_cached_tools is
\* the key of save_tools_cache, and the entry saved for one is what a read
\* for the other finds (the saved list within the window, None after it).
C11_KeyIgnoresEnv ==
    /\ \A sp1, sp2 \in Servers :
          SameTarget(sp1, sp2) =>
              /\ cache_key(sp1) = cache_key(sp2)
              /\ save_cache_key(sp1) = save_cache_key(sp2)
              /\ cache_key(sp1) = save_cache_key(sp2)
    /\ \A f \in CacheFiles :
          PutBySave(f) =>
              \A sp2 \in Servers :
                  SameTarget(sp2, entry[f].by) =>
                      get_cached_tools(files, sp2, now) =
                          IF now - entry[f].at <= CACHE_EXPIRY_HOURS
                          THEN RetTools(entry[f].tools)
                          ELSE RetNone

\* a discovery call configured with env e2 got, from the cache, the list a
\* call configured with env e1 had saved
C11_ReadAcrossEnv ==
    /\ lastRead.read
    /\ lastRead.sp = SrvA2
    /\ PutBySave(lastRead.file)
    /\ lastRead.had = entry[lastRead.file]
    /\ lastRead.had.by = SrvA
    /\ lastRead.result.kind = "tools"
    /\ Len(lastRead.result.tools) > 0
    /\ Len(langchain_tools) > 0
    /\ langchain_tools[Len(langchain_tools)].mcp_server_params = SrvA2

\* C19: the entry a read consults was saved for a server with the same
\* command and the same ordered args as the server the read is for, so the
\* tools a cache hit binds to a server were advertised by such a server:
\* servers that differ in command or args share no entry.
C19_HitsAreOwnServers ==
    (lastRead.read /\ "by" \in DOMAIN lastRead.had) =>
        SameTarget(lastRead.sp, lastRead.had.by)

\* C20: a read leaves the cache as it is: the files change only at the save
\* of a live fetch; every entry's file holds the list and the cached_at of
\* the fetch that wrote it, however often it was read; and a read more than
\* 24h after that fetch finds no entry.
C20_ReadsLeaveCache ==
    /\ [][(files' # files) => (dpc = "listed" /\ dpc' = "closing")]_vars
    /\ [](\A f \in CacheFiles :
              entry[f].put =>
                  files[f] = File(json_dumps(CacheData(entry[f].tools, entry[f].at))))
    /\ []((/\ lastRead.read
            /\ lastRead.had.put
            /\ lastRead.at - lastRead.had.at > CACHE_EXPIRY_HOURS) =>
              lastRead.result = RetNone)

\* an entry that had been read, and returned, within its window was read
\* again more than 24h after it was written, and was absent
C20_ExpiredAfterReads ==
    /\ dpc = "spawn"
    /\ lastRead.read
    /\ lastRead.had.put
    /\ Len(lastRead.had.tools) > 0
    /\ hits[lastRead.file] > 0
    /\ lastRead.at - lastRead.had.at > CACHE_EXPIRY_HOURS
    /\ lastRead.result = RetNone

\* history: the events of the current call with the given tag
Events(tag) == SelectSeq(dlog, LAMBDA e : e.ev = tag)

\* the list each finished iteration got, from the cache or from list_tools,
\* in the order the iterations ran
IsSource(e) ==
    \/ e.ev = "consult" /\ e.outcome = "hit"
    \/ e.ev = "list_tools"
SourceTools(e) == IF e.ev = "consult" THEN e.result.tools ELSE e.tools
Sources ==
    LET es == SelectSeq(dlog, IsSource)
    IN  [n \in 1..Len(es) |-> [k |-> es[n].k, tools |-> SourceTools(es[n])]]

RECURSIVE TotalLen(_)
TotalLen(ss) == IF Len(ss) = 0 THEN 0 ELSE Len(ss[1].tools) + TotalLen(Tail(ss))

\* the iterations whose tools have been appended
Appended == IF dpc \in {"listed"} THEN SubSeq(Sources, 1, Len(Sources) - 1) ELSE Sources

\* C12: the returned list holds, for the servers in configuration order,
\* the tools of each server in the order list_tools returned them or the
\* cache stored them, each bound to its server; so the tools of a server
\* configured earlier all come first.
C12_ConfigurationOrder ==
    /\ \A n \in 1..Len(Sources) : Sources[n].k = n
    /\ Len(langchain_tools) = TotalLen(Appended)
    /\ \A n \in 1..Len(Appended) :
          \A j \in 1..Len(Appended[n].tools) :
              LET t == langchain_tools[TotalLen(SubSeq(Appended, 1, n - 1)) + j]
              IN  /\ t.name = Appended[n].tools[j].name
                  /\ t.description = Appended[n].tools[j].description
                  /\ t.args_schema = Appended[n].tools[j].inputSchema
                  /\ t.mcp_server_params = server_params[n]
    /\ dpc = "done" => Len(Sources) = Len(server_params)
    /\ \A p, q \in 1..Len(langchain_tools) :
          \A a, b \in 1..Len(server_params) :
              (/\ langchain_tools[p].mcp_server_params = server_params[a]
               /\ langchain_tools[q].mcp_server_params = server_params[b]
               /\ a < b) => p < q

\* a call has returned the two tools of a cache hit followed by the two
\* tools of a live fetch
C12_HitThenMiss ==
    /\ dpc = "done"
    /\ server_params = <<SrvA, SrvC>>
    /\ Len(Events("list_tools")) = 1
    /\ Sources = << [k |-> 1, tools |-> <<Tool2, Tool1>>],
                    [k |-> 2, tools |-> <<Tool1, Tool3>>] >>
    /\ Len(langchain_tools) = 4
    /\ langchain_tools[4].name = "t3"

\* history: the events of iteration k of the current call, by tag
EventsOf(k) == SelectSeq(dlog, LAMBDA e : e.k = k)
TagsOf(k) == [n \in 1..Len(EventsOf(k)) |-> EventsOf(k)[n].ev]

\* the ways an iteration that does not hit the cache may run, each to its end
MissRuns == { <<"consult", "open", "initialize", "list_tools", "save", "close">>,
              <<"consult", "open", "initialize", "close">>,
              <<"consult", "open", "close">>,
              <<"consult">> }

\* C17: an iteration that misses the cache saves once, after list_tools has
\* returned and before the session is closed; right after the save the file
\* holds the list of that list_tools call and the time of the write and
\* nothing else, and the other files are as the iteration found them; an
\* iteration whose spawn, handshake or list_tools fails saves nothing.
C17_WriteOncePerMiss ==
    /\ \A k \in 1..Len(server_params) :
          LET es == EventsOf(k)
          IN  /\ es # <<>> =>
                    /\ es[1].ev = "consult"
                    /\ es[1].outcome = "hit" => TagsOf(k) = <<"consult">>
                    /\ es[1].outcome # "hit" =>
                          \E r \in MissRuns : IsPrefix(TagsOf(k), r)
              /\ (dpc = "done" /\ es[1].outcome = "miss") =>
                    TagsOf(k) = <<"consult", "open", "initialize", "list_tools",
                                  "save", "close">>
    /\ dpc = "closing" =>
          LET es   == EventsOf(di)
              key  == save_cache_key(server_params[di])
              data == json_loads(files[key].text)
          IN  /\ dsession = {server_params[di]}
              /\ es[4].tools = listed
              /\ es[5].at = now
              /\ files[key].exists
              /\ Len(data.items) = 2
              /\ fromisoformat(GetItem(data, "cached_at")) = now
              /\ LoadTools(GetItem(data, "tools")) = RetTools(listed)
              /\ \A f \in CacheFiles \ {key} : files[f] = es[1].files[f]
    /\ (dpc = "crashed" /\ derr \in {"SpawnError", "McpError"}) =>
          /\ "save" \notin {TagsOf(di)[n] : n \in 1..Len(TagsOf(di))}
          /\ files = EventsOf(di)[1].files

\* an expired entry of two tools has been replaced by a list of two others
C17_ExpiredReplaced ==
    /\ dpc = "closing"
    /\ lastRead.read
    /\ lastRead.had.put
    /\ lastRead.had.tools = <<Tool2, Tool1>>
    /\ lastRead.result = RetNone
    /\ lastRead.file = save_cache_key(server_params[di])
    /\ listed = <<Tool1, Tool3>>
    /\ entry[lastRead.file].at = now

---------------------------------------------------------------------------
(* Properties of the thread store and of the runs that use it. *)

StoredIds(rs) == {rs[i].thread_id : i \in 1..Len(rs)}

\* C3: whatever the table held at first, every completed save(t) leaves
\* exactly one row, holding t, and a get_last_id that follows it with no
\* save in between returns t.
C3_SaveReplaces ==
    /\ lastSaved.ok =>
          /\ Len(rows) = 1
          /\ rows[1].thread_id = lastSaved.id
    /\ (lastGet.got /\ lastGet.saved.ok) => lastGet.id = lastGet.saved.id

\* a continuation run read the id back after a save that replaced the rows
\* of an earlier run
C3_ReadBackAfterSave ==
    /\ lastGet.got
    /\ lastGet.saved.ok
    /\ rpc = "resolved"
    /\ is_continuation
    /\ thread_id = lastSaved.id
    /\ lastSaved.id.src = "uuid4"

BeforeCommit == {"resolved", "streaming", "failed", "printed", "save_init",
                 "save_deleted", "save_inserted"}
PassedToExecutor == {"streaming", "failed", "printed", "save_init", "save_deleted",
                     "save_inserted", "done"}

\* C4: the rows of the thread store change only at the end of a successful
\* run, which writes the thread id it passed to the agent executor; a run
\* whose stream fails leaves them as they were; a continuation run uses the
\* thread id of the latest successful run, and a fresh run uses an id that
\* is not in the store.
C4_WrittenAtEndOfSuccessfulRun ==
    /\ rpc \in BeforeCommit => rows = rowsAtStart
    /\ rpc = "done" =>
          /\ StoredIds(rows) = {usedId}
          /\ Len(rows) = 1
          /\ lastSaved = [ok |-> TRUE, id |-> usedId]
    /\ (rpc \in PassedToExecutor /\ is_continuation /\ startSaved.ok) =>
          usedId = startSaved.id
    /\ (rpc \in PassedToExecutor /\ ~is_continuation) =>
          usedId \notin StoredIds(rowsAtStart)

\* a continuation run that followed a failed run completed, and saved the
\* id of the successful run before the failed one
C4_ContinuedAfterFailure ==
    /\ rpc = "done"
    /\ is_continuation
    /\ startSaved.ok
    /\ usedId = startSaved.id
    /\ startFailed
    /\ lastGet.got

\* C13: get_last_id leaves the rows of the table as they were; with a row in
\* the table it returns the thread id of a row, and with none it returns a
\* uuid4 drawn for the call, not used before, and the table still has no row.
C13_GetLeavesRows ==
    /\ lastGet.got =>
          /\ lastGet.after = lastGet.before
          /\ Len(lastGet.before) > 0 =>
                (~lastGet.minted /\ lastGet.id \in StoredIds(lastGet.before))
          /\ Len(lastGet.before) = 0 =>
                /\ lastGet.minted
                /\ lastGet.id.src = "uuid4"
                /\ lastGet.id.n < nextUuid
                /\ Len(lastGet.after) = 0
    /\ (rpc = "resolved" /\ is_continuation) =>
          /\ lastGet.got
          /\ thread_id = lastGet.id
          /\ rows = rowsAtStart
          /\ rows = lastGet.after
          /\ lastGet.minted =>
                (thread_id = Uuid(nextUuid - 1) /\ thread_id \notin StoredIds(rows))

\* a continuation run that found the table empty, after an earlier run that
\* failed, holds a new id while the table, now created, has no row
C13_MintedNotStored ==
    /\ rpc = "resolved"
    /\ is_continuation
    /\ cliRuns > 1
    /\ lastGet.minted
    /\ thread_id.src = "uuid4"
    /\ tableExists
    /\ Len(rows) = 0

SaveSteps == {"printed", "save_init", "save_deleted", "save_inserted", "done"}

\* C14: the DELETE and the INSERT of a save run in one transaction, which is
\* committed after the INSERT: the committed rows, which are what another
\* connection reads, stay as they were until the commit; in a save that
\* follows a completed save they are one row at every step, the step after
\* the commit of _init_db included.
C14_SaveIsOneTransaction ==
    /\ rpc = "save_init" => (~txn.active /\ rows = rowsAtStart)
    /\ rpc = "save_deleted" =>
          (txn.active /\ txn.rows = <<>> /\ rows = rowsAtStart)
    /\ rpc = "save_inserted" =>
          /\ txn.active
          /\ Len(txn.rows) = 1
          /\ txn.rows[1].thread_id = thread_id
          /\ rows = rowsAtStart
    /\ rpc = "done" => (~txn.active /\ StoredIds(rows) = {thread_id} /\ Len(rows) = 1)
    /\ (startSaved.ok /\ rpc \in SaveSteps) => Len(rows) = 1

\* a save that replaces the id of an earlier save has executed its DELETE:
\* the transaction holds no row, the committed table still holds the old one
C14_DeletedNotCommitted ==
    /\ rpc = "save_deleted"
    /\ startSaved.ok
    /\ txn.active
    /\ txn.rows = <<>>
    /\ Len(rows) = 1
    /\ rows[1].thread_id = startSaved.id
    /\ rows[1].thread_id # thread_id

---------------------------------------------------------------------------
(* Properties of the tool adapter. *)

Ops(log) == [k \in 1..Len(log) |-> log[k].op]
Lifecycle == <<"open", "initialize", "call_tool", "close">>
CallCount(log) == Cardinality({k \in 1..Len(log) : log[k].op = "call_tool"})
OpenSids == {s.sid : s \in sessions}

\* C5: every call of _arun opens a session of its own to the tool's server,
\* initializes it, issues one call_tool with the tool's name and the given
\* arguments, and closes the session, in this order; the session is closed
\* however the call ends (a failed handshake ends it before call_tool), and
\* no two calls share a session.
C5_SessionPerCall ==
    \A i \in InvIds :
        LET c == inv[i] IN
        /\ \/ IsPrefix(Ops(c.log), Lifecycle)
           \/ Ops(c.log) = <<"open", "initialize", "close">>
        /\ \A k \in 1..Len(c.log) :
              /\ c.log[k].sid = c.sid
              /\ c.log[k].op = "call_tool" =>
                    /\ c.log[k].name = c.tool.name
                    /\ c.log[k].arguments = c.kwargs
        /\ c.pc \in {"opened", "initialized", "answered"} =>
              [sid |-> c.sid, server |-> c.tool.mcp_server_params] \in sessions
        /\ c.pc = "done" =>
              /\ c.sid \notin OpenSids
              /\ c.log # <<>> => c.log[Len(c.log)].op = "close"
              /\ c.result.got => Ops(c.log) = Lifecycle
        /\ \A j \in InvIds :
              (j # i /\ c.log # <<>> /\ inv[j].log # <<>>) => inv[j].sid # c.sid

\* two calls to tools of one server have both run their whole lifecycle, one
\* of them ending in an error result, each on its own session
C5_TwoCallsOneServer ==
    /\ inv[1].pc = "done" /\ inv[2].pc = "done"
    /\ Ops(inv[1].log) = Lifecycle /\ Ops(inv[2].log) = Lifecycle
    /\ inv[1].tool.mcp_server_params = inv[2].tool.mcp_server_params
    /\ inv[1].sid # inv[2].sid
    /\ inv[1].result.got /\ inv[2].result.got
    /\ inv[1].result.isError /\ ~inv[2].result.isError
    /\ sessions = {}

\* C18: at every moment at most one transport session is open: discovery
\* closes the session of one server before it opens the next, and no two
\* calls of _arun have their sessions open at the same time.
C18_OneSessionAtATime ==
    Cardinality(sessions) + Cardinality(dsession) <= 1

\* C6: when call_tool's result has isError set, _arun raises ToolException
\* carrying the result's content and returns nothing, after exactly one
\* call_tool; when it is not set, _arun returns the content and raises
\* nothing.
C6_ErrorResultRaises ==
    \A i \in InvIds :
        (inv[i].pc = "done" /\ inv[i].result.got) =>
            /\ CallCount(inv[i].log) = 1
            /\ inv[i].result.isError =>
                  inv[i].outcome = [kind |-> "raise", exc |-> "ToolException",
                                    payload |-> inv[i].result.content]
            /\ ~inv[i].result.isError =>
                  inv[i].outcome = [kind |-> "return", value |-> inv[i].result.content]

\* a call whose result reported an error has raised with the server's content
C6_RaisedWithPayload ==
    \E i \in InvIds :
        /\ inv[i].pc = "done"
        /\ inv[i].result.got
        /\ inv[i].result.isError
        /\ inv[i].outcome.kind = "raise"
        /\ inv[i].outcome.payload = "text-2"

---------------------------------------------------------------------------
(* Properties of the renderer. *)

\* all text written to stdout so far, delivered or not
Written == Flatten(flushed) \o outbuf

EndsWith(s, t) ==
    /\ Len(t) <= Len(s)
    /\ \A k \in 1..Len(t) : s[Len(s) - Len(t) + k] = t[k]

\* the text of everything one chunk makes the loop print
ChunkText(chunk) ==
    Flatten([k \in 1..Len(Prints(chunk)) |->
                Text(Prints(chunk)[k].pieces \o <<Prints(chunk)[k].end>>)])

\* the text a token delta or a final value is to show
IsDelta(chunk) ==
    chunk \in {TokenHello, TokenWorld, TokenEmpty, TokenSegments, FinalValue}
DeltaText(chunk) ==
    CASE chunk = TokenHello    -> <<"Hello">>
      [] chunk = TokenWorld    -> <<" world">>
      [] chunk = TokenEmpty    -> <<>>
      [] chunk = TokenSegments -> <<"Hi">>
      [] chunk = FinalValue    -> <<"\n", "\n">>

\* C8: the output is the concatenation, in the order of the stream, of what
\* each chunk prints; the text of a token delta (and the separator of a
\* final value) is flushed, with all output before it, before the next chunk
\* is consumed; "Hello", " world", final value gives the flushes "Hello",
\* " world", blank line.
C8_OutputInStreamOrder ==
    /\ Written = Flatten([k \in 1..Len(consumed) |-> ChunkText(consumed[k])])
                    \o (IF spc = "exhausted" THEN <<"\n">> ELSE <<>>)
    /\ (spc = "streaming" /\ consumed # <<>> /\ IsDelta(consumed[Len(consumed)])) =>
          /\ outbuf = <<>>
          /\ DeltaText(consumed[Len(consumed)]) # <<>> =>
                /\ flushed # <<>>
                /\ EndsWith(flushed[Len(flushed)], DeltaText(consumed[Len(consumed)]))
    /\ (spc = "streaming" /\ consumed = <<TokenHello, TokenWorld, FinalValue>>) =>
          flushed = << <<"Hello">>, <<" world">>, <<"\n", "\n">> >>

\* the stream of the example has been rendered
C8_HelloWorld ==
    /\ consumed = <<TokenHello, TokenWorld, FinalValue>>
    /\ flushed = << <<"Hello">>, <<" world">>, <<"\n", "\n">> >>
    /\ outbuf = <<>>

IsErrorLine(line) == line[1] = "  Error: "
ErrorLines(lines) == {j \in 1..Len(lines) : IsErrorLine(lines[j])}

\* the tool call carries an error: the key is there with a non-empty text
ErrorSet(tc) ==
    /\ HasKey(tc, "error")
    /\ IsPyStr(GetItem(tc, "error"))
    /\ GetItem(tc, "error").s # ""

\* C9: the block rendered for a tool call has an Error line iff the call
\* carries an error; the Error line then follows the name line and precedes
\* the Args line.  The blocks are what was printed last.
C9_ErrorLineIffError ==
    /\ \A k \in 1..Len(rendered) :
          LET tc    == rendered[k].tc
              lines == rendered[k].lines
          IN  /\ (ErrorLines(lines) # {}) <=> ErrorSet(tc)
              /\ lines[1][1] = "  "
              /\ ErrorSet(tc) =>
                    /\ ErrorLines(lines) = {2}
                    /\ lines[2] = <<"  Error: ", GetItem(tc, "error").s>>
                    /\ lines[3] = <<"  Args:">>
              /\ ~ErrorSet(tc) => lines[2] = <<"  Args:">>
    /\ (spc = "streaming" /\ rendered # <<>>) =>
          EndsWith(Written,
                   Flatten([k \in 1..Len(rendered) |->
                               JoinLines(rendered[k].lines) \o <<"\n">>]))

\* a chunk with a failed and a plain tool call has been rendered
C9_FailedAndPlain ==
    /\ Len(rendered) = 2
    /\ ErrorSet(rendered[1].tc)
    /\ ~ErrorSet(rendered[2].tc)
    /\ IsErrorLine(rendered[1].lines[2])
    /\ ErrorLines(rendered[2].lines) = {}


\* C15: a final value makes the loop print one line end and one empty
\* line, flushed, and the loop goes on: whatever was consumed before, a final
\* value among it or not, each chunk adds to the output exactly its own
\* text, and the loop is still in the stream afterwards.
C15_FinalValueSeparates ==
    [][(consumed' # consumed) =>
          LET c == consumed'[Len(consumed')]
          IN  /\ consumed' = Append(consumed, c)
              /\ spc = "streaming" /\ spc' = "streaming"
              /\ Flatten(flushed') \o outbuf' =
                    Written \o (IF IsDelta(c) THEN DeltaText(c) ELSE ChunkText(c))
              /\ c = FinalValue =>
                    /\ Flatten(flushed') \o outbuf' = Written \o <<"\n", "\n">>
                    /\ outbuf' = <<>>
                    /\ Len(flushed') = Len(flushed) + 1]_vars

\* a token was rendered after a final value, and a second final value after
\* it
C15_TokenAfterFinalValue ==
    /\ spc = "streaming"
    /\ consumed = <<FinalValue, TokenHello, FinalValue>>
    /\ Written = <<"\n", "\n", "Hello", "\n", "\n">>
    /\ outbuf = <<>>

---------------------------------------------------------------------------
(* Properties of a whole run. *)

Saving == {"save_init", "save_deleted", "save_inserted", "done"}

\* C16: the loop over a stream of finitely many chunks ends; it is left for
\* line 326 only when the stream is exhausted (an exception of the stream
\* leaves run() instead); line 326 then prints one line end after the text
\* of all chunks; and the thread id is saved only after that.
C16_EndsOnExhaustion ==
    /\ [](/\ spc = "exhausted" =>
                Written = Flatten([k \in 1..Len(consumed) |-> ChunkText(consumed[k])])
                             \o <<"\n">>
          /\ spc \in {"streaming", "raised"} =>
                Written = Flatten([k \in 1..Len(consumed) |-> ChunkText(consumed[k])])
          /\ spc = "raised" => rpc = "failed"
          /\ rpc \in Saving => spc = "exhausted"
          /\ (rpc # "idle" /\ rows # rowsAtStart) =>
                (spc = "exhausted" /\ rpc = "done"))
    /\ [][(spc' = "exhausted" /\ spc # "exhausted") =>
              /\ spc = "streaming"
              /\ consumed' = consumed
              /\ Flatten(flushed') \o outbuf' = Written \o <<"\n">>
              /\ rows' = rows]_vars
    /\ ((spc = "streaming") ~> (spc \in {"exhausted", "raised"}))

\* a run whose stream had two chunks has printed the final line end and
\* then saved its thread id
C16_SavedAfterNewline ==
    /\ rpc = "done"
    /\ spc = "exhausted"
    /\ Len(consumed) = 2
    /\ EndsWith(Written, <<"\n">>)
    /\ Len(rows) = 1
    /\ rows[1].thread_id = thread_id

=============================================================================
